---- MODULE Spec2Model ----
(***************************************************************************)
(* Model of pkg/chart/chart.go: the chart-testing orchestration engine.    *)
(* processCharts drives chart selection, Helm initialisation, repository   *)
(* registration, the previous-revision worktree, and one pipeline per      *)
(* chart (LintChart, InstallChart, LintAndInstallChart).  Every call to a  *)
(* collaborator (Git, Helm, Kubectl, Linter, ...) is one step whose        *)
(* outcome is chosen nondeterministically.                                 *)
(***************************************************************************)
EXTENDS Integers, Sequences, FiniteSets, TLC

\* ------------------------------------------------------------------ bounds
\* Largest number of charts chart selection yields.
MaxCharts == 2
\* Largest number of ci/*-values.yaml files of one chart.
MaxValues == 2
\* Largest number of configured chart repositories (config.ChartRepos).
MaxRepos == 1
\* Largest number of maintainers declared in a Chart.yaml.
MaxMaintainers == 2

MaxFiles == 4

VARIABLES
    cfg,             \* config.Configuration: the fields processCharts and the pipelines read
    pc,              \* position of the (single, sequential) control flow
    charts,          \* charts returned by FindChartsToBeProcessed
    idx,             \* index of the chart the current loop is at
    reposLeft,       \* entries of config.ChartRepos not yet registered
    results,         \* processCharts' local `results`
    overallSuccess,  \* testResults.OverallSuccess
    deferRemove,     \* TRUE once `defer t.git.RemoveWorkingTree(...)` is registered
    worktree,        \* the ct_previous_revision worktree: "none", "present", "failed", "removed"
    calls,           \* number of calls made to Helm init and to the Git operations
    depBuilt,        \* charts (current revision) BuildDependencies was called for, in order
    invoked,         \* charts handed to the pipeline (`action`), in order
    depFailedAt,     \* index of the chart whose BuildDependencies failed, 0 if none
    retResults,      \* the result list processCharts returned
    retErr,          \* the error processCharts returned
    result,          \* the TestResult of the pipeline that is running / has just returned
    call,            \* the active doUpgrade / doInstall call: its arguments and caller
    valuesFiles,     \* the values files of the active doUpgrade / doInstall call
    vf,              \* index of the values file the loop is at
    install,         \* what generateInstallConfig returned for the current iteration
    testStage,       \* which testRelease call is running: "old", "new", "install"
    funErr,          \* the error the iteration's anonymous function returns
    callErr,         \* the error doUpgrade / doInstall returned
    diag,            \* how the diagnostics of the current cleanup went: "none", "ok", "failed"
    versions,        \* what Git and ChartUtils answer about the chart's versions, while UpgradeChart asks
    breaking,        \* what checkBreakingChangeAllowed answered for the chart in the pipeline
    callLog,         \* collaborator calls of the pipeline call that is running / has just returned
    args,            \* the inputs of a function that is called on its own
    ret              \* what that function returned

vars == << cfg, pc, charts, idx, reposLeft, results, overallSuccess, deferRemove,
           worktree, calls, depBuilt, invoked, depFailedAt, retResults, retErr,
           result, call, valuesFiles, vf, install, testStage, funErr, callErr, diag, versions, breaking, callLog,
           args, ret >>

orchVars == << charts, idx, reposLeft, results, overallSuccess, deferRemove,
               worktree, calls, depBuilt, invoked, depFailedAt, retResults, retErr >>

pipeVars == << result, call, valuesFiles, vf, install, testStage, funErr, callErr, diag, versions, breaking, callLog >>

\* ------------------------------------------------------------ basic values
nil == "nil"

\* Chart directories are paths: sequences of path segments.
AllChartNames == << "foo", "bar", "baz", "qux" >>

ChartDir(i) == << "charts", AllChartNames[i] >>

AllValuesFiles == << "ci/a-values.yaml", "ci/b-values.yaml", "ci/c-values.yaml", "ci/d-values.yaml" >>

ctPreviousRevisionTree == "ct_previous_revision"

\* path.Join(ctPreviousRevisionTree, dir)
computePreviousRevisionPath(dir) == << ctPreviousRevisionTree >> \o dir

\* filepath.Glob(chart/ci/*-values.yaml): any number of files, in lexical order.
FindValuesFilesForCI == { SubSeq(AllValuesFiles, 1, n) : n \in 0..MaxValues }

\* Variant: an empty list of values files is left empty.
WithoutDefaultValues(files) == files

\* `if len(valuesFiles) == 0 { valuesFiles = append(valuesFiles, "") }`
\* (359-361, 431-433, 463-465)
WithDefaultValues(files) == IF Len(files) = 0 THEN Append(files, "") ELSE files

TestResult(chart, err) == [Chart |-> chart, Error |-> err]

NoCall == [fn |-> "none", caller |-> "none", oldChart |-> << >>, newChart |-> << >>,
           oldChartMustPass |-> FALSE]

NoInstall == [namespace |-> << >>, release |-> << >>, releaseSelector |-> "", cleanup |-> "none"]

NoCalls == [Init |-> 0, MergeBase |-> 0, AddWorkingTree |-> 0,
            RemoveWorkingTree |-> 0, BuildDependenciesPrevious |-> 0]

NoAnswer == [allowed |-> FALSE, err |-> nil]

EmptyVersion == [kind |-> "empty", major |-> 0, minor |-> 0, patch |-> 0]

NoVersions ==
    [exists |-> FALSE, showOk |-> FALSE, oldYamlOk |-> FALSE, old |-> EmptyVersion,
     newYamlOk |-> FALSE, new |-> EmptyVersion]

Bump(op) == [calls EXCEPT ![op] = @ + 1]

LogEntry(op, chart, arg, ok) == [op |-> op, chart |-> chart, arg |-> arg, ok |-> ok]

\* ---------------------------------------------------------- configuration
LintFlags == [CheckVersionIncrement : BOOLEAN, ValidateChartSchema : BOOLEAN,
              ValidateYaml : BOOLEAN, ValidateMaintainers : BOOLEAN]

NoLintStages == [CheckVersionIncrement |-> FALSE, ValidateChartSchema |-> FALSE,
                 ValidateYaml |-> FALSE, ValidateMaintainers |-> FALSE]

AllLintStages == [CheckVersionIncrement |-> TRUE, ValidateChartSchema |-> TRUE,
                  ValidateYaml |-> TRUE, ValidateMaintainers |-> TRUE]

\* The lint switches explored per mode: every combination when only linting,
\* all on when linting is followed by installing, and all off when the run
\* never lints.
LintFlagsOf(mode) ==
    CASE mode = "lint" -> LintFlags
      [] mode = "lintinstall" -> { AllLintStages }
      [] OTHER -> { NoLintStages }

Configs ==
    { [mode |-> m, Upgrade |-> u, Namespace |-> ns, lint |-> lf] :
        m \in {"lint", "install", "lintinstall"}, u \in BOOLEAN,
        ns \in {"", "fixed-ns"}, lf \in LintFlags }

\* config.Namespace is read by the install pipelines only.
NamespacesOf(mode) == IF mode = "lint" THEN {""} ELSE {"", "fixed-ns"}

\* No chart is selected and no pipeline has run.
NothingRun ==
    /\ charts = << >>
    /\ idx = 0
    /\ reposLeft = 0
    /\ results = << >>
    /\ overallSuccess = TRUE
    /\ deferRemove = FALSE
    /\ worktree = "none"
    /\ calls = NoCalls
    /\ depBuilt = << >>
    /\ invoked = << >>
    /\ depFailedAt = 0
    /\ retResults = << >>
    /\ retErr = nil
    /\ result = TestResult(<< >>, nil)
    /\ call = NoCall
    /\ valuesFiles = << >>
    /\ vf = 0
    /\ install = NoInstall
    /\ testStage = "none"
    /\ funErr = nil
    /\ callErr = nil
    /\ diag = "none"
    /\ versions = NoVersions
    /\ breaking = NoAnswer
    /\ callLog = << >>

\* config.Upgrade is explored where InstallChart is the whole pipeline; the
\* other modes run with its default, false.
UpgradesOf(mode) == IF mode = "install" THEN BOOLEAN ELSE {FALSE}

Init ==
    /\ cfg \in { c \in Configs : /\ c.lint \in LintFlagsOf(c.mode)
                                 /\ c.Namespace \in NamespacesOf(c.mode)
                                 /\ c.Upgrade \in UpgradesOf(c.mode) }
    /\ pc = "FindChartsToBeProcessed"
    /\ NothingRun
    /\ args = << >>
    /\ ret = << >>

\* ------------------------------------------------ processCharts (200-283)
\* Variant: the worktree is removed on the successful return only.
ReturnRemovingOnSuccessOnly(res, err) ==
    /\ retResults' = res
    /\ retErr' = err
    /\ pc' = IF deferRemove /\ err = nil THEN "RemoveWorkingTree" ELSE "Done"

\* A `return res, err` of processCharts: the deferred RemoveWorkingTree, if
\* registered, runs before the function returns to its caller.
Return(res, err) ==
    /\ retResults' = res
    /\ retErr' = err
    /\ pc' = IF deferRemove THEN "RemoveWorkingTree" ELSE "Done"

\* Where processCharts goes after Helm init and repository registration.
AfterRepos == IF cfg.Upgrade THEN "computeMergeBase" ELSE "BuildDependencies"

\* Variant: the `len(charts) == 0` return is missing.
FindChartsToBeProcessedWithoutEmptyReturn ==
    /\ pc = "FindChartsToBeProcessed"
    /\ \/ /\ Return(<< >>, "ErrIdentifyingCharts")
          /\ UNCHANGED charts
       \/ \E n \in 0..MaxCharts :
            /\ charts' = [i \in 1..n |-> ChartDir(i)]
            /\ pc' = "HelmInit"
            /\ UNCHANGED << retResults, retErr >>
    /\ UNCHANGED << cfg, args, ret, idx, reposLeft, results, overallSuccess, deferRemove, worktree,
                    calls, depBuilt, invoked, depFailedAt >>
    /\ UNCHANGED pipeVars

\* charts, err := t.FindChartsToBeProcessed(); the two early returns.
FindChartsToBeProcessed ==
    /\ pc = "FindChartsToBeProcessed"
    /\ \/ /\ Return(<< >>, "ErrIdentifyingCharts")
          /\ UNCHANGED charts
       \/ \E n \in 0..MaxCharts :
            /\ charts' = [i \in 1..n |-> ChartDir(i)]
            /\ IF n = 0
                 THEN Return(results, nil)
                 ELSE /\ pc' = "HelmInit"
                      /\ UNCHANGED << retResults, retErr >>
    /\ UNCHANGED << cfg, args, ret, idx, reposLeft, results, overallSuccess, deferRemove, worktree,
                    calls, depBuilt, invoked, depFailedAt >>
    /\ UNCHANGED pipeVars

\* t.helm.Init(); on success the loop over config.ChartRepos starts.
HelmInit ==
    /\ pc = "HelmInit"
    /\ calls' = Bump("Init")
    /\ \/ /\ Return(<< >>, "ErrInitializingHelm")
          /\ UNCHANGED << reposLeft, idx >>
       \/ \E n \in 0..MaxRepos :
            /\ reposLeft' = n
            /\ idx' = 1
            /\ pc' = IF n = 0 THEN AfterRepos ELSE "AddRepo"
            /\ UNCHANGED << retResults, retErr >>
    /\ UNCHANGED << cfg, args, ret, charts, results, overallSuccess, deferRemove, worktree,
                    depBuilt, invoked, depFailedAt >>
    /\ UNCHANGED pipeVars

\* One iteration of `for _, repo := range t.config.ChartRepos`.
AddRepo ==
    /\ pc = "AddRepo"
    /\ reposLeft > 0
    /\ \/ /\ Return(<< >>, "ErrAddingRepo")
          /\ UNCHANGED reposLeft
       \/ /\ reposLeft' = reposLeft - 1
          /\ pc' = IF reposLeft = 1 THEN AfterRepos ELSE "AddRepo"
          /\ UNCHANGED << retResults, retErr >>
    /\ UNCHANGED << cfg, args, ret, charts, idx, results, overallSuccess, deferRemove, worktree,
                    calls, depBuilt, invoked, depFailedAt >>
    /\ UNCHANGED pipeVars

\* mergeBase, err := t.computeMergeBase(): ValidateRepository, then MergeBase.
computeMergeBase ==
    /\ pc = "computeMergeBase"
    /\ cfg.Upgrade
    /\ calls' = Bump("MergeBase")
    /\ \/ \E e \in {"ErrNotAGitRepository", "ErrMergeBase"} : Return(results, e)
       \/ /\ pc' = "AddWorkingTree"
          /\ UNCHANGED << retResults, retErr >>
    /\ UNCHANGED << cfg, args, ret, charts, idx, reposLeft, results, overallSuccess, deferRemove,
                    worktree, depBuilt, invoked, depFailedAt >>
    /\ UNCHANGED pipeVars

\* t.git.AddWorkingTree(...), its error dropped, and the defer of the removal.
AddWorkingTree ==
    /\ pc = "AddWorkingTree"
    /\ calls' = Bump("AddWorkingTree")
    /\ \E ok \in BOOLEAN : worktree' = IF ok THEN "present" ELSE "failed"
    /\ deferRemove' = TRUE
    /\ idx' = 1
    /\ pc' = "BuildDependenciesPrevious"
    /\ UNCHANGED << cfg, args, ret, charts, reposLeft, results, overallSuccess, depBuilt, invoked,
                    depFailedAt, retResults, retErr >>
    /\ UNCHANGED pipeVars

\* One iteration of the loop building the previous revisions' dependencies:
\* a failure is printed and the loop goes on.
BuildDependenciesPrevious ==
    /\ pc = "BuildDependenciesPrevious"
    /\ idx \in 1..Len(charts)
    /\ calls' = Bump("BuildDependenciesPrevious")
    /\ idx' = IF idx = Len(charts) THEN 1 ELSE idx + 1
    /\ pc' = IF idx = Len(charts) THEN "BuildDependencies" ELSE "BuildDependenciesPrevious"
    /\ UNCHANGED << cfg, args, ret, charts, reposLeft, results, overallSuccess, deferRemove, worktree,
                    depBuilt, invoked, depFailedAt, retResults, retErr >>
    /\ UNCHANGED pipeVars

\* The pipeline `action` of the run: LintChart, InstallChart or LintAndInstallChart.
ActionEntry == IF cfg.mode = "install" THEN "InstallChart" ELSE "LintChart"

\* Variant: a failure is only printed, as for the previous revision.
BuildDependenciesOnlyPrintingFailure ==
    /\ pc = "BuildDependencies"
    /\ idx \in 1..Len(charts)
    /\ depBuilt' = Append(depBuilt, charts[idx])
    /\ \E ok \in BOOLEAN : depFailedAt' = IF ok THEN depFailedAt ELSE idx
    /\ invoked' = Append(invoked, charts[idx])
    /\ result' = TestResult(charts[idx], nil)
    /\ pc' = ActionEntry
    /\ UNCHANGED << retResults, retErr >>
    /\ UNCHANGED << cfg, args, ret, charts, idx, reposLeft, results, overallSuccess, deferRemove,
                    worktree, calls >>
    /\ UNCHANGED << call, valuesFiles, vf, install, testStage, funErr, callErr, diag, versions, breaking, callLog >>

\* Top of the main loop: t.helm.BuildDependencies(chart); a failure returns
\* (nil, err), otherwise `action(chart, valuesFiles)` is called.
BuildDependencies ==
    /\ pc = "BuildDependencies"
    /\ idx \in 1..Len(charts)
    /\ depBuilt' = Append(depBuilt, charts[idx])
    /\ \/ /\ depFailedAt' = idx
          /\ Return(<< >>, "ErrBuildingDependencies")
          /\ UNCHANGED << invoked, result >>
       \/ /\ invoked' = Append(invoked, charts[idx])
          /\ result' = TestResult(charts[idx], nil)
          /\ pc' = ActionEntry
          /\ UNCHANGED << depFailedAt, retResults, retErr >>
    /\ UNCHANGED << cfg, args, ret, charts, idx, reposLeft, results, overallSuccess, deferRemove,
                    worktree, calls >>
    /\ UNCHANGED << call, valuesFiles, vf, install, testStage, funErr, callErr, diag, versions, breaking, callLog >>


\* The locals of a pipeline that has returned are gone.
PipelineReturned ==
    /\ result' = TestResult(<< >>, nil)
    /\ call' = NoCall
    /\ valuesFiles' = << >>
    /\ vf' = 0
    /\ install' = NoInstall
    /\ testStage' = "none"
    /\ funErr' = nil
    /\ callErr' = nil
    /\ diag' = "none"
    /\ versions' = NoVersions
    /\ breaking' = NoAnswer
    /\ callLog' = << >>

\* Variant: OverallSuccess is never cleared.
CollectIgnoringError ==
    /\ pc = "Collect"
    /\ UNCHANGED overallSuccess
    /\ results' = Append(results, result)
    /\ IF idx < Len(charts)
         THEN /\ idx' = idx + 1
              /\ pc' = "BuildDependencies"
              /\ UNCHANGED << retResults, retErr >>
         ELSE /\ UNCHANGED idx
              /\ Return(results', nil)
    /\ PipelineReturned
    /\ UNCHANGED << cfg, args, ret, charts, reposLeft, deferRemove, worktree, calls, depBuilt,
                    invoked, depFailedAt >>

\* Variant: the loop is left at the first chart whose pipeline failed.
CollectStoppingOnError ==
    /\ pc = "Collect"
    /\ overallSuccess' = (overallSuccess /\ result.Error = nil)
    /\ results' = Append(results, result)
    /\ IF idx < Len(charts) /\ result.Error = nil
         THEN /\ idx' = idx + 1
              /\ pc' = "BuildDependencies"
              /\ UNCHANGED << retResults, retErr >>
         ELSE /\ UNCHANGED idx
              /\ IF overallSuccess'
                   THEN Return(results', nil)
                   ELSE Return(results', "ErrProcessingCharts")
    /\ PipelineReturned
    /\ UNCHANGED << cfg, args, ret, charts, reposLeft, deferRemove, worktree, calls, depBuilt,
                    invoked, depFailedAt >>

\* The pipeline has returned `result` (272-277); after the last chart the
\* function returns (278-282).
Collect ==
    /\ pc = "Collect"
    /\ overallSuccess' = (overallSuccess /\ result.Error = nil)
    /\ results' = Append(results, result)
    /\ IF idx < Len(charts)
         THEN /\ idx' = idx + 1
              /\ pc' = "BuildDependencies"
              /\ UNCHANGED << retResults, retErr >>
         ELSE /\ UNCHANGED idx
              /\ IF overallSuccess'
                   THEN Return(results', nil)
                   ELSE Return(results', "ErrProcessingCharts")
    /\ PipelineReturned
    /\ UNCHANGED << cfg, args, ret, charts, reposLeft, deferRemove, worktree, calls, depBuilt,
                    invoked, depFailedAt >>

\* The deferred t.git.RemoveWorkingTree(ctPreviousRevisionTree).
RemoveWorkingTree ==
    /\ pc = "RemoveWorkingTree"
    /\ calls' = Bump("RemoveWorkingTree")
    /\ worktree' = "removed"
    /\ pc' = "Done"
    /\ UNCHANGED << cfg, args, ret, charts, idx, reposLeft, results, overallSuccess, deferRemove,
                    depBuilt, invoked, depFailedAt, retResults, retErr >>
    /\ UNCHANGED pipeVars

\* ------------------------------------------------- VersionGate (634-715)
\* A chart version as read from a Chart.yaml: a semantic version, a string
\* that is no semantic version, or the empty string.
SemVer(major, minor, patch) == [kind |-> "semver", major |-> major, minor |-> minor, patch |-> patch]

MalformedVersion == [kind |-> "malformed", major |-> 0, minor |-> 0, patch |-> 0]

Versions == { SemVer(0, 1, 0), SemVer(0, 2, 0), SemVer(1, 0, 0), SemVer(1, 1, 0),
              SemVer(1, 1, 1), SemVer(2, 0, 0), MalformedVersion, EmptyVersion }

\* What the Git and ChartUtils collaborators answer for one chart.
VersionInputs ==
    [exists : BOOLEAN, showOk : BOOLEAN, oldYamlOk : BOOLEAN, old : Versions,
     newYamlOk : BOOLEAN, new : Versions]

\* util.CompareVersions(left, right): -1, 0 or 1 as left is lower than, equal
\* to or greater than right; an error for a version that does not parse.
CompareVersions(left, right) ==
    IF left.kind # "semver" \/ right.kind # "semver"
      THEN [result |-> 0, err |-> "ErrMalformedVersion"]
      ELSE LET l == << left.major, left.minor, left.patch >>
               r == << right.major, right.minor, right.patch >>
               d == IF l[1] # r[1] THEN 1 ELSE IF l[2] # r[2] THEN 2 ELSE IF l[3] # r[3] THEN 3 ELSE 0
           IN [result |-> IF d = 0 THEN 0 ELSE IF l[d] < r[d] THEN -1 ELSE 1, err |-> nil]

\* util.BreakingChangeAllowed(left, right): a change of the major version, or
\* below 1.0.0 of the minor version, is a breaking change that is allowed.
BreakingChangeAllowed(left, right) ==
    IF left.kind # "semver" \/ right.kind # "semver"
      THEN [allowed |-> FALSE, err |-> "ErrMalformedVersion"]
      ELSE LET compatible == IF left.major = 0
                               THEN right.major = 0 /\ right.minor = left.minor
                                    /\ right.patch >= left.patch
                               ELSE right.major = left.major
                                    /\ CompareVersions(left, right).result <= 0
           IN [allowed |-> ~compatible, err |-> IF compatible THEN nil ELSE "ErrNotCompatible"]

GetOldChartVersion(in) ==
    IF ~in.exists THEN [version |-> EmptyVersion, err |-> nil]
    ELSE IF ~in.showOk THEN [version |-> EmptyVersion, err |-> "ErrReadingOldChartYaml"]
    ELSE IF ~in.oldYamlOk THEN [version |-> EmptyVersion, err |-> "ErrReadingOldChartVersion"]
    ELSE [version |-> in.old, err |-> nil]

GetNewChartVersion(in) ==
    IF ~in.newYamlOk THEN [version |-> EmptyVersion, err |-> "ErrReadingNewChartVersion"]
    ELSE [version |-> in.new, err |-> nil]

\* Variant: an unchanged version passes.
CheckVersionIncrementAcceptingEqual(in) ==
    LET old == GetOldChartVersion(in)
        new == GetNewChartVersion(in)
        cmp == CompareVersions(old.version, new.version)
    IN IF old.err # nil THEN old.err
       ELSE IF old.version = EmptyVersion THEN nil
       ELSE IF new.err # nil THEN new.err
       ELSE IF cmp.err # nil THEN cmp.err
       ELSE IF cmp.result > 0 THEN "ErrNeedsVersionBump"
       ELSE nil

CheckVersionIncrement(in) ==
    LET old == GetOldChartVersion(in)
        new == GetNewChartVersion(in)
        cmp == CompareVersions(old.version, new.version)
    IN IF old.err # nil THEN old.err
       ELSE IF old.version = EmptyVersion THEN nil
       ELSE IF new.err # nil THEN new.err
       ELSE IF cmp.err # nil THEN cmp.err
       ELSE IF cmp.result >= 0 THEN "ErrNeedsVersionBump"
       ELSE nil

\* Variant: a chart without previous revision is reported as not allowed.
checkBreakingChangeAllowedNewChartAnError(in) ==
    LET old == GetOldChartVersion(in)
        new == GetNewChartVersion(in)
    IN IF old.err # nil THEN [allowed |-> FALSE, err |-> old.err]
       ELSE IF old.version = EmptyVersion THEN [allowed |-> FALSE, err |-> "ErrNoPreviousRevision"]
       ELSE IF new.err # nil THEN [allowed |-> FALSE, err |-> new.err]
       ELSE BreakingChangeAllowed(old.version, new.version)

checkBreakingChangeAllowed(in) ==
    LET old == GetOldChartVersion(in)
        new == GetNewChartVersion(in)
    IN IF old.err # nil THEN [allowed |-> FALSE, err |-> old.err]
       ELSE IF old.version = EmptyVersion THEN [allowed |-> TRUE, err |-> "ErrNoPreviousRevision"]
       ELSE IF new.err # nil THEN [allowed |-> FALSE, err |-> new.err]
       ELSE BreakingChangeAllowed(old.version, new.version)

\* The answers CheckVersionIncrement can give over all collaborator answers.
CheckVersionIncrementErrs == { CheckVersionIncrement(in) : in \in VersionInputs }

\* ----------------------------------------- ValidateMaintainers (717-750)
\* valid[i] is what the account validator answers for the i-th maintainer.
MaintainerInputs ==
    [yamlOk : BOOLEAN, deprecated : BOOLEAN, maintainers : 0..MaxMaintainers,
     urlOk : BOOLEAN, valid : [1..MaxMaintainers -> BOOLEAN]]

\* Variant: every maintainer is validated before the error is returned.
ValidateNamesWithoutStopping(in, i) ==
    [err |-> IF \E k \in i..in.maintainers : ~in.valid[k] THEN "ErrInvalidMaintainer" ELSE nil,
     urlLookups |-> 1, validated |-> in.maintainers]

RECURSIVE ValidateNames(_, _)
\* The loop of lines 743-747 from the i-th maintainer on.
ValidateNames(in, i) ==
    IF i > in.maintainers THEN [err |-> nil, urlLookups |-> 1, validated |-> i - 1]
    ELSE IF ~in.valid[i] THEN [err |-> "ErrInvalidMaintainer", urlLookups |-> 1, validated |-> i]
    ELSE ValidateNames(in, i + 1)

\* The error returned, and the number of calls made to GetUrlForRemote and to
\* the account validator.
ValidateMaintainers(in) ==
    LET Returning(err, lookups) == [err |-> err, urlLookups |-> lookups, validated |-> 0]
    IN IF ~in.yamlOk THEN Returning("ErrReadingChartYaml", 0)
       ELSE IF in.deprecated
         THEN IF in.maintainers > 0 THEN Returning("ErrDeprecatedChartHasMaintainers", 0)
              ELSE Returning(nil, 0)
       ELSE IF in.maintainers = 0 THEN Returning("ErrChartHasNoMaintainers", 0)
       ELSE IF ~in.urlOk THEN Returning("ErrUrlForRemote", 1)
       ELSE ValidateNames(in, 1)

ValidateMaintainersErrs == { ValidateMaintainers(in).err : in \in MaintainerInputs }

\* ----------------------------------------------------- LintChart (318-374)
\* The collaborator call that fails during one LintChart call, if any: the
\* stage, the position of the file in the stage's loop, and the error.
NoFailure == [op |-> "none", at |-> 0, err |-> nil]

LintFailures(files) ==
    { NoFailure }
    \cup { [op |-> "CheckVersionIncrement", at |-> 1, err |-> e] : e \in CheckVersionIncrementErrs \ {nil} }
    \cup { [op |-> "Yamale", at |-> 1, err |-> "ErrYamale"] }
    \cup { [op |-> "YamlLint", at |-> i, err |-> "ErrYamlLint"] : i \in 1..(Len(files) + 2) }
    \cup { [op |-> "ValidateMaintainers", at |-> 1, err |-> e] : e \in ValidateMaintainersErrs \ {nil} }
    \cup { [op |-> "LintWithValues", at |-> i, err |-> "ErrHelmLint"] : i \in 1..Len(WithDefaultValues(files)) }

\* What the i-th call of `op` returns.
Outcome(failure, op, i) == IF failure.op = op /\ failure.at = i THEN failure.err ELSE nil

\* The state of a LintChart call between two statements: the error it has
\* returned with (nil while it is still running) and the calls made so far.
LintStart == [err |-> nil, log |-> << >>]

\* One call of a stage; nothing is called once LintChart has returned.
LintCallKeepingOn(st, op, chart, arg, err) ==
    [err |-> IF st.err # nil THEN st.err ELSE err,
     log |-> Append(st.log, LogEntry(op, chart, arg, err = nil))]

LintCall(st, op, chart, arg, err) ==
    IF st.err # nil THEN st
    ELSE [err |-> err, log |-> Append(st.log, LogEntry(op, chart, arg, err = nil))]

RECURSIVE LintFiles(_, _, _, _, _, _)
\* A loop calling `op` on files[i..] (343-348, 363-371).
LintFiles(st, op, chart, files, i, failure) ==
    IF i > Len(files) THEN st
    ELSE LintFiles(LintCall(st, op, chart, files[i], Outcome(failure, op, i)),
                   op, chart, files, i + 1, failure)

LintChartRun(flags, chart, files, failure) ==
    LET s1 == IF flags.CheckVersionIncrement
                THEN LintCall(LintStart, "CheckVersionIncrement", chart, "",
                              Outcome(failure, "CheckVersionIncrement", 1))
                ELSE LintStart
        s2 == IF flags.ValidateChartSchema
                THEN LintCall(s1, "Yamale", chart, "Chart.yaml", Outcome(failure, "Yamale", 1))
                ELSE s1
        s3 == IF flags.ValidateYaml
                THEN LintFiles(s2, "YamlLint", chart, << "Chart.yaml", "values.yaml" >> \o files,
                               1, failure)
                ELSE s2
        s4 == IF flags.ValidateMaintainers
                THEN LintCall(s3, "ValidateMaintainers", chart, "",
                              Outcome(failure, "ValidateMaintainers", 1))
                ELSE s3
    IN LintFiles(s4, "LintWithValues", chart, WithDefaultValues(files), 1, failure)

\* LintChart as the pipeline, or as the first half of LintAndInstallChart
\* (539-546), which installs only if linting returned no error.  The values
\* files are those processCharts found for the chart (266).
LintChart ==
    /\ pc = "LintChart"
    /\ \E files \in FindValuesFilesForCI :
         \E failure \in LintFailures(files) :
           LET run == LintChartRun(cfg.lint, charts[idx], files, failure)
           IN /\ result' = TestResult(charts[idx], run.err)
              /\ callLog' = run.log
              /\ pc' = IF cfg.mode = "lintinstall" /\ run.err = nil
                         THEN "InstallChart" ELSE "Collect"
    /\ UNCHANGED << call, valuesFiles, vf, install, testStage, funErr, callErr, diag, versions, breaking >>
    /\ UNCHANGED << cfg, args, ret, args, ret >>
    /\ UNCHANGED orchVars

\* ------------------------------------- InstallChart, UpgradeChart (376-424)
\* The start of a doUpgrade or doInstall call: the values files of the chart
\* are looked up, the default entry added if there is none (428-433, 462-465).
EnterCall(fn, caller, oldChart, newChart, oldChartMustPass) ==
    /\ call' = [fn |-> fn, caller |-> caller, oldChart |-> oldChart, newChart |-> newChart,
                oldChartMustPass |-> oldChartMustPass]
    /\ \E files \in FindValuesFilesForCI : valuesFiles' = WithDefaultValues(files)
    /\ vf' = 1
    /\ install' = NoInstall
    /\ testStage' = "none"
    /\ funErr' = nil
    /\ callErr' = nil
    /\ callLog' = << >>
    /\ pc' = "generateInstallConfig"
    /\ UNCHANGED diag

\* InstallChart: upgrade testing first if it is enabled, else the plain install.
InstallChart ==
    /\ pc = "InstallChart"
    /\ IF cfg.Upgrade
         THEN /\ pc' = "UpgradeChart"
              /\ callLog' = << >>
              /\ UNCHANGED << result, call, valuesFiles, vf, install, testStage, funErr, callErr, diag >>
         ELSE /\ result' = TestResult(charts[idx], nil)
              /\ EnterCall("doInstall", "InstallChart", charts[idx], charts[idx], FALSE)
    /\ UNCHANGED << cfg, args, ret, versions, breaking >>
    /\ UNCHANGED orchVars

\* UpgradeChart, line 409: breakingChangeAllowed, err := t.checkBreakingChangeAllowed(chart)
UpgradeChart ==
    /\ pc = "UpgradeChart"
    /\ result' = TestResult(charts[idx], nil)
    /\ \E in \in VersionInputs :
         /\ versions' = in
         /\ breaking' = checkBreakingChangeAllowed(in)
    /\ pc' = "UpgradeChartBranch"
    /\ UNCHANGED << cfg, args, ret, call, valuesFiles, vf, install, testStage, funErr, callErr, diag, callLog >>
    /\ UNCHANGED orchVars

\* Variant: the error of the check is looked at before its answer.
UpgradeChartBranchErrorFirst ==
    /\ pc = "UpgradeChartBranch"
    /\ versions' = NoVersions
    /\ UNCHANGED breaking
    /\ IF breaking.err # nil
         THEN /\ result' = [result EXCEPT !.Error = breaking.err]
              /\ pc' = "Collect"
              /\ UNCHANGED << call, valuesFiles, vf, install, testStage, funErr, callErr, diag, callLog >>
         ELSE IF breaking.allowed
           THEN /\ EnterCall("doUpgrade", "InstallChart", charts[idx], charts[idx], TRUE)
                /\ UNCHANGED result
           ELSE /\ EnterCall("doUpgrade", "UpgradeChart",
                             computePreviousRevisionPath(charts[idx]), charts[idx], FALSE)
                /\ UNCHANGED result
    /\ UNCHANGED << cfg, args, ret, args, ret >>
    /\ UNCHANGED orchVars

\* UpgradeChart, lines 411-422, and what InstallChart does with a result that
\* UpgradeChart returns without calling doUpgrade (384-388).
UpgradeChartBranch ==
    /\ pc = "UpgradeChartBranch"
    /\ versions' = NoVersions
    /\ UNCHANGED breaking
    /\ IF breaking.allowed
         THEN /\ EnterCall("doUpgrade", "InstallChart", charts[idx], charts[idx], TRUE)
              /\ UNCHANGED result
         ELSE IF breaking.err # nil
           THEN /\ result' = [result EXCEPT !.Error = breaking.err]
                /\ pc' = "Collect"
                /\ UNCHANGED << call, valuesFiles, vf, install, testStage, funErr, callErr, diag, callLog >>
           ELSE /\ EnterCall("doUpgrade", "UpgradeChart",
                             computePreviousRevisionPath(charts[idx]), charts[idx], FALSE)
                /\ UNCHANGED result
    /\ UNCHANGED << cfg, args, ret, args, ret >>
    /\ UNCHANGED orchVars

\* doUpgrade(previous revision, chart, false) has returned to UpgradeChart
\* (422-423), which returns to InstallChart (384-388).
UpgradeChartReturn ==
    /\ pc = "doReturn"
    /\ call.fn = "doUpgrade" /\ call.caller = "UpgradeChart"
    /\ result' = [result EXCEPT !.Error = callErr]
    /\ IF callErr # nil
         THEN /\ pc' = "Collect"
              /\ UNCHANGED << call, valuesFiles, vf, install, testStage, funErr, callErr, diag, callLog >>
         ELSE EnterCall("doUpgrade", "InstallChart", charts[idx], charts[idx], TRUE)
    /\ UNCHANGED << cfg, args, ret, versions, breaking >>
    /\ UNCHANGED orchVars

\* Variant: the plain install follows the self-upgrade whatever it returned.
SelfUpgradeReturnIgnoringError ==
    /\ pc = "doReturn"
    /\ call.fn = "doUpgrade" /\ call.caller = "InstallChart"
    /\ result' = TestResult(charts[idx], nil)
    /\ EnterCall("doInstall", "InstallChart", charts[idx], charts[idx], FALSE)
    /\ UNCHANGED << cfg, args, ret, versions, breaking >>
    /\ UNCHANGED orchVars

\* doUpgrade(chart, chart, true) has returned to InstallChart (388-395).
SelfUpgradeReturn ==
    /\ pc = "doReturn"
    /\ call.fn = "doUpgrade" /\ call.caller = "InstallChart"
    /\ IF callErr # nil
         THEN /\ result' = [result EXCEPT !.Error = callErr]
              /\ pc' = "Collect"
              /\ UNCHANGED << call, valuesFiles, vf, install, testStage, funErr, callErr, diag, callLog >>
         ELSE /\ result' = TestResult(charts[idx], nil)
              /\ EnterCall("doInstall", "InstallChart", charts[idx], charts[idx], FALSE)
    /\ UNCHANGED << cfg, args, ret, versions, breaking >>
    /\ UNCHANGED orchVars

\* doInstall has returned to InstallChart (395-399).
doInstallReturn ==
    /\ pc = "doReturn"
    /\ call.fn = "doInstall"
    /\ result' = [result EXCEPT !.Error = callErr]
    /\ pc' = "Collect"
    /\ UNCHANGED << cfg, args, ret, call, valuesFiles, vf, install, testStage, funErr, callErr, diag, versions, breaking, callLog >>
    /\ UNCHANGED orchVars

\* ------------------------------- doInstall, doUpgrade, testRelease (426-537)
\* util.CreateInstallParams(chart, buildId): release and namespace names made
\* from the chart path and the build id.
CreateInstallParams(chart) == [release |-> << "release" >> \o chart, namespace |-> << "ns" >> \o chart]

\* generateInstallConfig: with a configured namespace the cleanup deletes the
\* release only; otherwise the namespace is generated and deleted too (and
\* releaseSelector is left at its zero value).
\* Variant: the cleanup never deletes the namespace.
generateInstallConfigFixedOnly(chart) ==
    [namespace |-> IF cfg.Namespace # "" THEN << cfg.Namespace >>
                   ELSE CreateInstallParams(chart).namespace,
     release |-> CreateInstallParams(chart).release,
     releaseSelector |-> << "release-label" >> \o CreateInstallParams(chart).release,
     cleanup |-> "release"]

generateInstallConfigOf(chart) ==
    IF cfg.Namespace # ""
      THEN [namespace |-> << cfg.Namespace >>,
            release |-> CreateInstallParams(chart).release,
            releaseSelector |-> << "release-label" >> \o CreateInstallParams(chart).release,
            cleanup |-> "release"]
      ELSE [namespace |-> CreateInstallParams(chart).namespace,
            release |-> CreateInstallParams(chart).release,
            releaseSelector |-> << >>,
            cleanup |-> "release+namespace"]

\* The chart doInstall installs, or doUpgrade installs first.
InstalledChart == IF call.fn = "doUpgrade" THEN call.oldChart ELSE call.newChart

Log(op, chart, arg, ok) == callLog' = Append(callLog, LogEntry(op, chart, arg, ok))

iterUnchanged == << cfg, args, ret, result, call, valuesFiles, vf, callErr, diag, versions, breaking >>

\* Lines 443 and 474, with the `defer cleanup()` that follows them.
generateInstallConfig ==
    /\ pc = "generateInstallConfig"
    /\ install' = generateInstallConfigOf(InstalledChart)
    /\ Log("generateInstallConfig", InstalledChart, valuesFiles[vf], TRUE)
    /\ pc' = "InstallWithValues"
    /\ UNCHANGED << testStage, funErr >>
    /\ UNCHANGED iterUnchanged
    /\ UNCHANGED orchVars

\* Variant: cleanup is called at the end of the function instead of deferred.
FunExitSkippingCleanupOnError(err) ==
    /\ funErr' = err
    /\ pc' = IF err # nil THEN "FunReturn" ELSE "PrintPodDetailsAndLogs"

\* `return err` of the anonymous function: the deferred cleanup runs first.
FunExit(err) ==
    /\ funErr' = err
    /\ pc' = "PrintPodDetailsAndLogs"

\* Variants: oldChartMustPass is not consulted.
OldChartFailureAlwaysSkipped(err) == nil

OldChartFailureAlwaysReturned(err) == err

\* What the anonymous function of doUpgrade returns when installing or
\* testing the old chart failed with err (479-483, 486-490).

OldChartFailure(err) == IF call.oldChartMustPass THEN err ELSE nil

\* Variant: oldChartMustPass also governs failures of the new chart.
NewChartFailureTolerated(err) == IF call.oldChartMustPass THEN err ELSE nil

\* What the anonymous function returns when the upgrade, or the test of the
\* upgraded or freshly installed release, failed with err (446-449, 493-497).

NewChartFailure(err) == err

Failure(err) == IF testStage = "old" THEN OldChartFailure(err) ELSE NewChartFailure(err)

\* t.helm.InstallWithValues(chart, valuesFile, namespace, release)
InstallWithValues ==
    /\ pc = "InstallWithValues"
    /\ \E ok \in BOOLEAN :
         /\ Log("InstallWithValues", InstalledChart, valuesFiles[vf], ok)
         /\ IF ok
              THEN /\ testStage' = IF call.fn = "doUpgrade" THEN "old" ELSE "install"
                   /\ pc' = "WaitForDeployments"
                   /\ UNCHANGED funErr
              ELSE /\ UNCHANGED testStage
                   /\ IF call.fn = "doUpgrade"
                        THEN FunExit(OldChartFailure("ErrInstall"))
                        ELSE FunExit(NewChartFailure("ErrInstall"))
    /\ UNCHANGED install
    /\ UNCHANGED iterUnchanged
    /\ UNCHANGED orchVars

\* testRelease, first half: t.kubectl.WaitForDeployments(namespace, releaseSelector)
WaitForDeployments ==
    /\ pc = "WaitForDeployments"
    /\ \E ok \in BOOLEAN :
         /\ Log("WaitForDeployments", InstalledChart, testStage, ok)
         /\ IF ok
              THEN /\ pc' = "Test"
                   /\ UNCHANGED funErr
              ELSE FunExit(Failure("ErrWaitForDeployments"))
    /\ UNCHANGED << install, testStage >>
    /\ UNCHANGED iterUnchanged
    /\ UNCHANGED orchVars

\* testRelease, second half: t.helm.Test(release, cleanupHelmTests); after a
\* successful test of the old chart doUpgrade goes on to the upgrade.
Test ==
    /\ pc = "Test"
    /\ \E ok \in BOOLEAN :
         /\ Log("Test", InstalledChart, testStage, ok)
         /\ IF ok /\ testStage = "old"
              THEN /\ pc' = "Upgrade"
                   /\ UNCHANGED funErr
              ELSE IF ok THEN FunExit(nil)
              ELSE FunExit(Failure("ErrHelmTest"))
    /\ UNCHANGED << install, testStage >>
    /\ UNCHANGED iterUnchanged
    /\ UNCHANGED orchVars

\* Line 493: t.helm.Upgrade(oldChart, release)
Upgrade ==
    /\ pc = "Upgrade"
    /\ \E ok \in BOOLEAN :
         /\ Log("Upgrade", call.oldChart, valuesFiles[vf], ok)
         /\ IF ok
              THEN /\ testStage' = "new"
                   /\ pc' = "WaitForDeployments"
                   /\ UNCHANGED funErr
              ELSE /\ UNCHANGED testStage
                   /\ FunExit(NewChartFailure("ErrUpgrade"))
    /\ UNCHANGED install
    /\ UNCHANGED iterUnchanged
    /\ UNCHANGED orchVars

\* Variant: a failure of the diagnostics ends the cleanup.
PrintPodDetailsAndLogsEndingCleanup ==
    /\ pc = "PrintPodDetailsAndLogs"
    /\ \E ok \in BOOLEAN :
         /\ diag' = IF ok THEN "ok" ELSE "failed"
         /\ pc' = IF ok THEN "DeleteRelease" ELSE "FunReturn"
    /\ Log("PrintPodDetailsAndLogs", InstalledChart, "", TRUE)
    /\ UNCHANGED << install, testStage, funErr >>
    /\ UNCHANGED << cfg, args, ret, result, call, valuesFiles, vf, callErr, versions, breaking >>
    /\ UNCHANGED orchVars

\* cleanup(), first call: t.PrintPodDetailsAndLogs(namespace, releaseSelector),
\* which returns nothing: a failure inside it is printed and ends it early.
PrintPodDetailsAndLogs ==
    /\ pc = "PrintPodDetailsAndLogs"
    /\ \E ok \in BOOLEAN : diag' = IF ok THEN "ok" ELSE "failed"
    /\ Log("PrintPodDetailsAndLogs", InstalledChart, "", TRUE)
    /\ pc' = "DeleteRelease"
    /\ UNCHANGED << install, testStage, funErr >>
    /\ UNCHANGED << cfg, args, ret, result, call, valuesFiles, vf, callErr, versions, breaking >>
    /\ UNCHANGED orchVars

\* Variant: the generated namespace is left behind.
DeleteReleaseLeavingNamespace ==
    /\ pc = "DeleteRelease"
    /\ Log("DeleteRelease", InstalledChart, "", TRUE)
    /\ pc' = "FunReturn"
    /\ UNCHANGED << install, testStage, funErr >>
    /\ UNCHANGED iterUnchanged
    /\ UNCHANGED orchVars

\* cleanup(), second call: t.helm.DeleteRelease(release)
DeleteRelease ==
    /\ pc = "DeleteRelease"
    /\ Log("DeleteRelease", InstalledChart, "", TRUE)
    /\ pc' = IF install.cleanup = "release+namespace" THEN "DeleteNamespace" ELSE "FunReturn"
    /\ UNCHANGED << install, testStage, funErr >>
    /\ UNCHANGED iterUnchanged
    /\ UNCHANGED orchVars

\* cleanup(), third call, of a generated namespace: t.kubectl.DeleteNamespace(namespace)
DeleteNamespace ==
    /\ pc = "DeleteNamespace"
    /\ Log("DeleteNamespace", InstalledChart, "", TRUE)
    /\ pc' = "FunReturn"
    /\ UNCHANGED << install, testStage, funErr >>
    /\ UNCHANGED iterUnchanged
    /\ UNCHANGED orchVars

\* Variant: the loop does not stop at a failed iteration.
FunReturnLastErrorOnly ==
    /\ pc = "FunReturn"
    /\ IF vf < Len(valuesFiles)
         THEN /\ vf' = vf + 1
              /\ pc' = "generateInstallConfig"
              /\ UNCHANGED callErr
         ELSE /\ callErr' = funErr
              /\ pc' = "doReturn"
              /\ UNCHANGED vf
    /\ diag' = "none"
    /\ UNCHANGED << cfg, args, ret, result, call, valuesFiles, install, testStage, funErr, versions, breaking, callLog >>
    /\ UNCHANGED orchVars

\* `if err := fun(); err != nil { return err }`, the next values file, and the
\* `return nil` after the loop (452-457, 500-505).
FunReturn ==
    /\ pc = "FunReturn"
    /\ IF funErr # nil
         THEN /\ callErr' = funErr
              /\ pc' = "doReturn"
              /\ UNCHANGED vf
         ELSE IF vf < Len(valuesFiles)
           THEN /\ vf' = vf + 1
                /\ pc' = "generateInstallConfig"
                /\ UNCHANGED callErr
           ELSE /\ callErr' = nil
                /\ pc' = "doReturn"
                /\ UNCHANGED vf
    /\ diag' = "none"
    /\ UNCHANGED << cfg, args, ret, result, call, valuesFiles, install, testStage, funErr, versions, breaking, callLog >>
    /\ UNCHANGED orchVars

Next ==
    \/ FindChartsToBeProcessed
    \/ HelmInit
    \/ AddRepo
    \/ computeMergeBase
    \/ AddWorkingTree
    \/ BuildDependenciesPrevious
    \/ BuildDependencies
    \/ LintChart
    \/ InstallChart
    \/ UpgradeChart
    \/ UpgradeChartBranch
    \/ UpgradeChartReturn
    \/ SelfUpgradeReturn
    \/ doInstallReturn
    \/ generateInstallConfig
    \/ InstallWithValues
    \/ WaitForDeployments
    \/ Test
    \/ Upgrade
    \/ PrintPodDetailsAndLogs
    \/ DeleteRelease
    \/ DeleteNamespace
    \/ FunReturn
    \/ Collect
    \/ RemoveWorkingTree

Spec == Init /\ [][Next]_vars

\* ------------------------- ComputeChangedChartDirectories (575-610)
\* Paths are sequences of segments.  cfg.ChartDirs is one directory, directly
\* under the repository root or one level below it.
ChartDirLayouts == { << << "charts" >> >>, << << "helm", "charts" >> >> }

ExcludedChartSets == { {}, {"bar"} }

\* The directories with a Chart.yaml: foo and bar under each chart directory.
HasChartYaml(chartDirs, dir) ==
    \E i \in 1..Len(chartDirs) : \E name \in {"foo", "bar"} : dir = chartDirs[i] \o << name >>

\* The files Git can report as changed under the chart directories.
ChangedFilesOf(chartDirs) ==
    UNION { { chartDirs[i] \o << "foo", "Chart.yaml" >>,
              chartDirs[i] \o << "foo", "templates", "x.yaml" >>,
              chartDirs[i] \o << "bar", "Chart.yaml" >>,
              chartDirs[i] \o << "baz", "README.md" >>,
              chartDirs[i] \o << "OWNERS" >> } : i \in 1..Len(chartDirs) }
    \cup { << "README.md" >> }

FileLists(files) == UNION { [1..n -> files] : n \in 0..MaxFiles }

ChangedInputs ==
    UNION { [repositoryOk : BOOLEAN, mergeBaseOk : BOOLEAN, diffOk : BOOLEAN,
             ChartDirs : { dirs }, ExcludedCharts : ExcludedChartSets,
             files : FileLists(ChangedFilesOf(dirs))] : dirs \in ChartDirLayouts }

\* filepath.Dir(file)
Dir(file) == SubSeq(file, 1, Len(file) - 1)

StringSliceContains(slice, x) == \E i \in 1..Len(slice) : slice[i] = x

RECURSIVE LookupChartDir(_, _)
\* chartUtils.LookupChartDir(chartDirs, dir): walking upward from dir, the
\* first directory that holds a Chart.yaml and lies directly in one of the
\* chart directories; an error if there is none.
LookupChartDir(chartDirs, dir) ==
    IF dir = << >> THEN [chartDir |-> << >>, err |-> "ErrNoChartDirectory"]
    ELSE IF HasChartYaml(chartDirs, dir) /\ StringSliceContains(chartDirs, Dir(dir))
      THEN [chartDir |-> dir, err |-> nil]
    ELSE LookupChartDir(chartDirs, Dir(dir))

\* Variant: the chart directory is appended without looking it up in the list.
AppendChartDirAlways(changedChartDirs, chartDir) == Append(changedChartDirs, chartDir)

\* Lines 602-604: only add it if not already in the list.
AppendChartDir(changedChartDirs, chartDir) ==
    IF StringSliceContains(changedChartDirs, chartDir) THEN changedChartDirs
    ELSE Append(changedChartDirs, chartDir)

\* Line 594: the second of the at most three elements the path is split into
\* is missing or names an excluded chart.
SkippedByName(in, file) == Len(file) < 2 \/ file[2] \in in.ExcludedCharts

RECURSIVE ChangedChartDirs(_, _, _)
\* The loop of lines 592-608 from the i-th changed file on.
ChangedChartDirs(in, i, changedChartDirs) ==
    IF i > Len(in.files) THEN changedChartDirs
    ELSE LET file == in.files[i]
             found == LookupChartDir(in.ChartDirs, Dir(file))
         IN ChangedChartDirs(in, i + 1,
                IF SkippedByName(in, file) \/ found.err # nil THEN changedChartDirs
                ELSE AppendChartDir(changedChartDirs, found.chartDir))

ComputeChangedChartDirectories(in) ==
    IF ~in.repositoryOk THEN [dirs |-> << >>, err |-> "ErrNotAGitRepository"]
    ELSE IF ~in.mergeBaseOk THEN [dirs |-> << >>, err |-> "ErrMergeBase"]
    ELSE IF ~in.diffOk THEN [dirs |-> << >>, err |-> "ErrCreatingDiff"]
    ELSE [dirs |-> ChangedChartDirs(in, 1, << >>), err |-> nil]

\* ------------------------------------------- functions called on their own
\* The exported functions of Testing that the commands and LintChart call,
\* each applied once to inputs drawn from every answer of its collaborators.
FunctionInit ==
    /\ cfg \in { c \in Configs : c.mode = "lint" /\ c.lint = NoLintStages
                                 /\ c.Namespace = "" /\ ~c.Upgrade }
    /\ NothingRun
    /\ ret = << >>
    /\ \/ pc = "CheckVersionIncrement" /\ args \in VersionInputs
       \/ pc = "ComputeChangedChartDirectories" /\ args \in ChangedInputs
       \/ pc = "ValidateMaintainers" /\ args \in MaintainerInputs

\* The function returns value to its caller.
FunctionReturn(value) ==
    /\ ret' = value
    /\ pc' = "Returned"
    /\ UNCHANGED << cfg, args >>
    /\ UNCHANGED orchVars
    /\ UNCHANGED pipeVars

CallCheckVersionIncrement ==
    /\ pc = "CheckVersionIncrement"
    /\ FunctionReturn([fn |-> "CheckVersionIncrement", err |-> CheckVersionIncrement(args)])

CallComputeChangedChartDirectories ==
    /\ pc = "ComputeChangedChartDirectories"
    /\ FunctionReturn([fn |-> "ComputeChangedChartDirectories"] @@ ComputeChangedChartDirectories(args))

CallValidateMaintainers ==
    /\ pc = "ValidateMaintainers"
    /\ FunctionReturn([fn |-> "ValidateMaintainers"] @@ ValidateMaintainers(args))

FunctionNext ==
    \/ CallCheckVersionIncrement
    \/ CallComputeChangedChartDirectories
    \/ CallValidateMaintainers

FunctionSpec == FunctionInit /\ [][FunctionNext]_vars

\* ============================================================ properties
Returned == pc = "Done"

\* Errors that abort the run before or between pipelines.
FatalErrors == { "ErrIdentifyingCharts", "ErrInitializingHelm", "ErrAddingRepo",
                 "ErrNotAGitRepository", "ErrMergeBase", "ErrBuildingDependencies" }

SomeError(list) == \E i \in 1..Len(list) : list[i].Error # nil

\* ------------------------------------------------------------------ C1
\* C1 as stated: processCharts returns a non-nil error if and only if at
\* least one chart's TestResult carries an error.
C1_ErrorIffSomeResultFailed ==
    Returned => ((retErr # nil) <=> SomeError(results))

\* C1, amended: the aggregate error is returned if and only if at least one
\* TestResult of the returned list carries an error; every other non-nil
\* error is a fatal one and is returned with an empty list.
C1_AggregateErrorIffSomeReturnedResultFailed ==
    Returned =>
        /\ (retErr = "ErrProcessingCharts") <=> SomeError(retResults)
        /\ retErr \notin {nil, "ErrProcessingCharts"} => (retErr \in FatalErrors /\ retResults = << >>)
        /\ retErr \in {nil, "ErrProcessingCharts"} => retResults = results

C1_Witness ==
    /\ Returned
    /\ retErr = "ErrProcessingCharts"
    /\ Len(retResults) = 2
    /\ retResults[1].Error = nil
    /\ retResults[2].Error # nil

\* ------------------------------------------------------------------ C2
\* C2: whenever processCharts returns an error, it returns one TestResult
\* for each chart already handed to a pipeline, in selection order.
C2_ErrorStillReturnsEveryResult ==
    (Returned /\ retErr # nil) =>
        /\ Len(retResults) = Len(invoked)
        /\ \A i \in 1..Len(invoked) : retResults[i].Chart = invoked[i]

\* ------------------------------------------------------------------ C3
\* C3 as stated: once a pipeline has failed for one chart, every selected
\* chart still has its dependencies built and its pipeline invoked.
C3_FailureNeverKeepsLaterChartsFromRunning ==
    (Returned /\ SomeError(results)) =>
        /\ Len(depBuilt) = Len(charts)
        /\ Len(invoked) = Len(charts)

\* C3, amended: a pipeline failure is recorded in the chart's TestResult and
\* clears overall success, and the run goes on chart by chart in selection
\* order; it ends before the last chart only when the dependency build of
\* the next chart fails.
C3_FailureDoesNotStopRun ==
    /\ \A i \in 1..Len(results) : results[i].Chart = charts[i]
    /\ overallSuccess <=> ~SomeError(results)
    /\ \A i \in 1..Len(invoked) : invoked[i] = charts[i]
    /\ \A i \in 1..Len(depBuilt) : depBuilt[i] = charts[i]
    /\ Len(results) <= Len(invoked) /\ Len(invoked) <= Len(results) + 1
    /\ Len(invoked) <= Len(depBuilt) /\ Len(depBuilt) <= Len(invoked) + 1
    /\ (pc \in {"RemoveWorkingTree", "Done"} /\ Len(results) > 0) =>
          \/ /\ Len(results) = Len(charts)
             /\ Len(invoked) = Len(charts)
             /\ Len(depBuilt) = Len(charts)
          \/ /\ depFailedAt = Len(invoked) + 1
             /\ Len(depBuilt) = depFailedAt

C3_Witness ==
    /\ Returned
    /\ Len(results) = 2
    /\ results[1].Error # nil
    /\ results[2].Error = nil
    /\ Len(invoked) = 2
    /\ ~overallSuccess

\* ------------------------------------------------------------------ C4
\* C4: when chart selection yields zero charts, processCharts returns an
\* empty list and no error, having called neither Helm init, nor AddRepo, nor
\* the worktree checkout, nor a pipeline.
C4_NoChartsNothingDone ==
    (pc # "FindChartsToBeProcessed" /\ Len(charts) = 0 /\ retErr = nil) =>
        /\ Returned
        /\ retResults = << >>
        /\ calls = NoCalls
        /\ worktree = "none" /\ ~deferRemove
        /\ depBuilt = << >> /\ invoked = << >> /\ results = << >>
        /\ call = NoCall /\ callLog = << >>

C4_Witness ==
    /\ Returned
    /\ cfg.Upgrade
    /\ Len(charts) = 0
    /\ retErr = nil
    /\ retResults = << >>

\* ------------------------------------------------------------------ C5
\* C5: once the dependency build of a chart has failed, processCharts is
\* returning that error; the chart's pipeline was not invoked and nothing was
\* built or invoked for a later chart.
C5_DependencyFailureAborts ==
    depFailedAt # 0 =>
        /\ pc \in {"RemoveWorkingTree", "Done"}
        /\ retErr = "ErrBuildingDependencies"
        /\ Len(depBuilt) = depFailedAt
        /\ Len(invoked) = depFailedAt - 1
        /\ Len(results) = depFailedAt - 1
        /\ call = NoCall

C5_Witness ==
    /\ Returned
    /\ depFailedAt = 1
    /\ Len(charts) = 2
    /\ retErr = "ErrBuildingDependencies"

\* ------------------------------------------------------------------ C6
\* C6: the previous-revision worktree is checked out only with upgrade
\* testing enabled and at most once; once AddWorkingTree has been called,
\* RemoveWorkingTree is called exactly once, as the last step before
\* processCharts returns, on every exit path.
C6_WorktreeRemovedOnEveryExit ==
    /\ calls.AddWorkingTree <= 1
    /\ calls.AddWorkingTree = 1 => cfg.Upgrade
    /\ calls.AddWorkingTree = 1 <=> worktree # "none"
    /\ calls.AddWorkingTree = 1 <=> deferRemove
    /\ calls.RemoveWorkingTree <= calls.AddWorkingTree
    /\ calls.RemoveWorkingTree = 1 <=> worktree = "removed"
    /\ Returned => calls.RemoveWorkingTree = calls.AddWorkingTree
    /\ calls.RemoveWorkingTree = 1 => Returned
    /\ Returned => worktree \in {"none", "removed"}

C6_Witness ==
    /\ Returned
    /\ calls.AddWorkingTree = 1
    /\ calls.RemoveWorkingTree = 1
    /\ worktree = "removed"
    /\ retErr = "ErrBuildingDependencies"

\* ------------------------------------------- install identities in callLog
\* Each generateInstallConfig entry of callLog starts the segment of one
\* install identity, which runs up to the next such entry.
InCall == call.fn # "none"

IdentityStarts == { i \in 1..Len(callLog) : callLog[i].op = "generateInstallConfig" }

SegmentEnd(i) ==
    IF \A j \in (i + 1)..Len(callLog) : callLog[j].op # "generateInstallConfig"
      THEN Len(callLog)
      ELSE (CHOOSE j \in (i + 1)..Len(callLog) :
              /\ callLog[j].op = "generateInstallConfig"
              /\ \A k \in (i + 1)..(j - 1) : callLog[k].op # "generateInstallConfig") - 1

Segment(i) == SubSeq(callLog, i, SegmentEnd(i))

Ops(log) == [i \in 1..Len(log) |-> log[i].op]

\* cleanup() of the current iteration is running.
CleaningUp == pc \in {"PrintPodDetailsAndLogs", "DeleteRelease", "DeleteNamespace"}

\* doUpgrade / doInstall has returned callErr to its caller.
CallReturned == pc \in {"doReturn", "Collect"}

CleanupOps == {"PrintPodDetailsAndLogs", "DeleteRelease", "DeleteNamespace"}

IsCleanup(e) == e.op \in CleanupOps

\* The calls cleanup has to make, in order.
ExpectedCleanup ==
    IF cfg.Namespace = ""
      THEN << "PrintPodDetailsAndLogs", "DeleteRelease", "DeleteNamespace" >>
      ELSE << "PrintPodDetailsAndLogs", "DeleteRelease" >>

IsPrefix(a, b) == Len(a) <= Len(b) /\ a = SubSeq(b, 1, Len(a))

Failed(e, op, stage) == e.op = op /\ ~e.ok /\ (stage = "" \/ e.arg = stage)

\* An entry of the log that is the failure of installing or testing the old chart.
OldFailure(e) ==
    \/ e.op = "InstallWithValues" /\ ~e.ok
    \/ Failed(e, "WaitForDeployments", "old")
    \/ Failed(e, "Test", "old")

\* An entry that is the failure of the upgrade or of testing the upgraded release.
NewFailure(e) ==
    \/ e.op = "Upgrade" /\ ~e.ok
    \/ Failed(e, "WaitForDeployments", "new")
    \/ Failed(e, "Test", "new")

\* An entry that exercises the new revision: the upgrade or a test after it.
NewRevisionOp(e) ==
    \/ e.op = "Upgrade"
    \/ e.op \in {"WaitForDeployments", "Test"} /\ e.arg = "new"

ErrorOf(e) ==
    CASE e.op = "InstallWithValues" -> "ErrInstall"
      [] e.op = "WaitForDeployments" -> "ErrWaitForDeployments"
      [] e.op = "Test" -> "ErrHelmTest"
      [] e.op = "Upgrade" -> "ErrUpgrade"
      [] OTHER -> nil

\* The error the call is returning with, where that is decided.
ReturnedError(err) ==
    /\ (CleaningUp \/ pc = "FunReturn") => funErr = err
    /\ CallReturned => callErr = err

\* ------------------------------------------------------------------ C7
\* C7: every install identity generated by doInstall or doUpgrade is cleaned
\* up exactly once, at the end of its iteration and not before: diagnostics,
\* then DeleteRelease, then DeleteNamespace if and only if no namespace is
\* configured; whatever the outcome of install, wait, test and upgrade.
C7_IdentityCleanedUpOnce ==
    InCall =>
        \A i \in IdentityStarts :
            LET end == SegmentEnd(i)
                cleanups == Cardinality({ k \in i..end : IsCleanup(callLog[k]) })
                \* the iteration of the identity is over
                over == end < Len(callLog) \/ pc \in {"FunReturn", "generateInstallConfig"} \/ CallReturned
            IN \* the cleanup calls are the last of the segment, in the expected order
               /\ cleanups <= Len(ExpectedCleanup)
               /\ \A k \in 1..cleanups : callLog[end - cleanups + k].op = ExpectedCleanup[k]
               /\ over => cleanups = Len(ExpectedCleanup)
               /\ cleanups > 0 => (over \/ pc \in {"DeleteRelease", "DeleteNamespace"})
               /\ callLog[i].chart = (IF call.fn = "doUpgrade" THEN call.oldChart ELSE call.newChart)

C7_Witness ==
    /\ pc = "FunReturn"
    /\ call.fn = "doUpgrade"
    /\ funErr = "ErrUpgrade"
    /\ cfg.Namespace = ""
    /\ vf = 2
    /\ Ops(Segment(CHOOSE i \in IdentityStarts : SegmentEnd(i) = Len(callLog)))
         = << "generateInstallConfig", "InstallWithValues", "WaitForDeployments", "Test",
              "Upgrade", "PrintPodDetailsAndLogs", "DeleteRelease", "DeleteNamespace" >>

\* ------------------------------------------------------------------ C8
\* C8 as stated: in doUpgrade with oldMustPass=false, once installing the old
\* revision has failed, no Helm upgrade and no new-revision test is attempted
\* afterwards, and doUpgrade returns no error.
C8_OldInstallFailureEndsUpgradeTesting ==
    (InCall /\ call.fn = "doUpgrade" /\ ~call.oldChartMustPass) =>
        \A i \in 1..Len(callLog) :
            (callLog[i].op = "InstallWithValues" /\ ~callLog[i].ok) =>
                /\ \A j \in (i + 1)..Len(callLog) : ~NewRevisionOp(callLog[j])
                /\ CallReturned => callErr = nil

\* C8, amended: in doUpgrade with oldMustPass=false, a failed install of the
\* old revision ends the iteration of that values file without error, with no
\* Helm upgrade and no new-revision test on that release; doUpgrade goes on
\* with the next values file, and returns no error if the failure was in the
\* last one.
C8_OldInstallFailureSkipsRelease ==
    (InCall /\ call.fn = "doUpgrade" /\ ~call.oldChartMustPass) =>
        \A i \in IdentityStarts :
            (\E k \in i..SegmentEnd(i) : callLog[k].op = "InstallWithValues" /\ ~callLog[k].ok) =>
                /\ \A k \in i..SegmentEnd(i) : ~NewRevisionOp(callLog[k])
                /\ IsPrefix(Ops(Segment(i)), << "generateInstallConfig", "InstallWithValues" >> \o ExpectedCleanup)
                /\ SegmentEnd(i) = Len(callLog) =>
                      /\ ReturnedError(nil)
                      /\ CallReturned => vf = Len(valuesFiles)

C8_Witness ==
    /\ CallReturned
    /\ call.fn = "doUpgrade"
    /\ ~call.oldChartMustPass
    /\ Len(valuesFiles) = 2
    /\ callLog[2].op = "InstallWithValues" /\ ~callLog[2].ok
    /\ \E j \in 3..Len(callLog) : callLog[j].op = "Upgrade"
    /\ callErr = nil

\* ------------------------------------------------------------------ C9
\* C9: in doUpgrade with oldMustPass=true a failure of installing or testing
\* the old revision is the error doUpgrade returns, and no Helm upgrade and no
\* further values file follows it; with oldMustPass=false a failed test of
\* the old revision is skipped like a failed install: no error, no upgrade of
\* that release, next values file.
C9_OldFailureGovernedByMustPass ==
    (InCall /\ call.fn = "doUpgrade") =>
        \A i \in 1..Len(callLog) :
            OldFailure(callLog[i]) =>
                IF call.oldChartMustPass
                  THEN /\ \A j \in (i + 1)..Len(callLog) : IsCleanup(callLog[j])
                       /\ CleaningUp \/ pc = "FunReturn" \/ CallReturned
                       /\ ReturnedError(ErrorOf(callLog[i]))
                  ELSE /\ \A j \in (i + 1)..Len(callLog) :
                            NewRevisionOp(callLog[j]) =>
                                \E k \in IdentityStarts : i < k /\ k < j
                       /\ (\A k \in IdentityStarts : k < i) =>
                            /\ ReturnedError(nil)
                            /\ CallReturned => vf = Len(valuesFiles)

C9_Witness ==
    /\ pc = "doReturn"
    /\ call.fn = "doUpgrade"
    /\ call.oldChartMustPass
    /\ Len(valuesFiles) = 2
    /\ vf = 1
    /\ callErr = "ErrHelmTest"
    /\ \E i \in 1..Len(callLog) : Failed(callLog[i], "Test", "old")

\* ------------------------------------------------------------------ C10
\* C10: in doUpgrade, for both values of oldMustPass, a failure of the Helm
\* upgrade or of the wait or test after it is the error doUpgrade returns,
\* and it ends the loop over the values files.
C10_NewFailureAlwaysReturned ==
    (InCall /\ call.fn = "doUpgrade") =>
        \A i \in 1..Len(callLog) :
            NewFailure(callLog[i]) =>
                /\ \A j \in (i + 1)..Len(callLog) : IsCleanup(callLog[j])
                /\ CleaningUp \/ pc = "FunReturn" \/ CallReturned
                /\ ReturnedError(ErrorOf(callLog[i]))
                /\ \E k \in 1..(i - 1) : callLog[k].op = "Test" /\ callLog[k].arg = "old" /\ callLog[k].ok

C10_Witness ==
    /\ pc = "doReturn"
    /\ call.fn = "doUpgrade"
    /\ ~call.oldChartMustPass
    /\ callErr = "ErrWaitForDeployments"
    /\ Len(valuesFiles) = 2
    /\ vf = 1
    /\ \E i \in 1..Len(callLog) : Failed(callLog[i], "WaitForDeployments", "new")

\* ------------------------------------------------------------------ C11
\* The calls one iteration of doUpgrade makes before its cleanup, in order.
UpgradeSteps ==
    << "generateInstallConfig", "InstallWithValues", "WaitForDeployments", "Test",
       "Upgrade", "WaitForDeployments", "Test" >>

\* The calls of the identity starting at i that are not cleanup calls.
Body(i) == SelectSeq(Segment(i), LAMBDA e : ~IsCleanup(e))

\* C11: in doUpgrade(oldChartPath, newChartPath, ...) the steps for one values
\* file run in the order install old, test old, upgrade, test new on one
\* release; the install is of oldChartPath and the upgrade is to newChartPath.
C11_UpgradeIsToNewChartPath ==
    (InCall /\ call.fn = "doUpgrade") =>
        \A i \in IdentityStarts :
            /\ IsPrefix(Ops(Body(i)), UpgradeSteps)
            /\ \A k \in i..SegmentEnd(i) :
                  /\ callLog[k].op = "InstallWithValues" => callLog[k].chart = call.oldChart
                  /\ callLog[k].op = "Upgrade" => callLog[k].chart = call.newChart

\* ------------------------------------------------------------------ C12
\* UpgradeChart has returned for the chart in the pipeline.
UpgradeChartReturned == cfg.Upgrade /\ (InCall \/ pc = "Collect")

\* C12 as stated: when the breaking-change check reports allowed, no upgrade
\* sequence is run for the chart during InstallChart and no error of upgrade
\* testing is recorded.
C12_BreakingChangeSkipsAllUpgradeTesting ==
    (UpgradeChartReturned /\ breaking.allowed) =>
        /\ call.fn # "doUpgrade"
        /\ \A k \in 1..Len(callLog) : callLog[k].op # "Upgrade"

\* C12, amended: when the breaking-change check reports allowed, UpgradeChart
\* returns a result without error and without running the upgrade sequence
\* from the previous revision; InstallChart goes on with the self-upgrade
\* sequence and the plain install, and records their errors.
C12_BreakingChangeSkipsUpgradeFromPreviousRevision ==
    (UpgradeChartReturned /\ breaking.allowed) =>
        /\ call.fn \in {"doUpgrade", "doInstall"}
        /\ call.caller = "InstallChart"
        /\ call.oldChart = charts[idx] /\ call.newChart = charts[idx]
        /\ call.oldChartMustPass <=> call.fn = "doUpgrade"
        /\ \A k \in 1..Len(callLog) : callLog[k].chart = charts[idx]
        /\ pc = "Collect" => result = TestResult(charts[idx], callErr)

C12_Witness ==
    /\ pc = "Collect"
    /\ breaking.allowed
    /\ call.fn = "doUpgrade"
    /\ result.Error = "ErrUpgrade"
    /\ \E k \in 1..Len(callLog) : callLog[k].op = "Upgrade" /\ ~callLog[k].ok

\* ------------------------------------------------------------------ C13
\* C13: for a chart whose Chart.yaml does not exist on the target branch,
\* CheckVersionIncrement returns no error whatever reading the new version
\* would give, checkBreakingChangeAllowed answers allowed with the
\* informational error, and the TestResult of UpgradeChart carries no error;
\* an error answered with allowed=false is the chart's TestResult error, and
\* no doUpgrade or doInstall call is made for the chart.
C13_NewChartIsNoFailure ==
    /\ (pc = "UpgradeChartBranch" /\ ~versions.exists) =>
          /\ CheckVersionIncrement(versions) = nil
          /\ breaking = [allowed |-> TRUE, err |-> "ErrNoPreviousRevision"]
    /\ (UpgradeChartReturned /\ breaking.err = "ErrNoPreviousRevision") =>
          /\ InCall
          /\ result.Error # "ErrNoPreviousRevision"
          /\ call.caller = "InstallChart"
          /\ (call.fn = "doUpgrade" /\ pc # "Collect") => result.Error = nil
    /\ (UpgradeChartReturned /\ ~breaking.allowed /\ breaking.err # nil) =>
          /\ pc = "Collect"
          /\ result = TestResult(charts[idx], breaking.err)
          /\ call = NoCall
          /\ callLog = << >>

C13_Witness ==
    /\ pc = "Collect"
    /\ breaking = [allowed |-> TRUE, err |-> "ErrNoPreviousRevision"]
    /\ call.fn = "doInstall"
    /\ callErr = nil
    /\ result = TestResult(charts[idx], nil)

\* ------------------------------------------------------------------ C14
FunctionReturned(fn) == pc = "Returned" /\ ret.fn = fn

\* left is strictly greater than right, by major, minor, patch.
Greater(left, right) ==
    \/ left.major > right.major
    \/ left.major = right.major /\ left.minor > right.minor
    \/ left.major = right.major /\ left.minor = right.minor /\ left.patch > right.patch

\* C14: for a chart on the target branch with well-formed old and new
\* versions CheckVersionIncrement returns an error if and only if the new
\* version is not strictly greater than the old one; a failure to read either
\* Chart.yaml, and a version that does not parse, is returned as an error.
C14_VersionMustIncrease ==
    (FunctionReturned("CheckVersionIncrement") /\ args.exists) =>
        LET oldRead == args.showOk /\ args.oldYamlOk
            compared == oldRead /\ args.old # EmptyVersion /\ args.newYamlOk
        IN /\ (compared /\ args.old.kind = "semver" /\ args.new.kind = "semver") =>
                 /\ (ret.err # nil) <=> ~Greater(args.new, args.old)
                 /\ ret.err \in {nil, "ErrNeedsVersionBump"}
           /\ ~args.showOk => ret.err = "ErrReadingOldChartYaml"
           /\ (args.showOk /\ ~args.oldYamlOk) => ret.err = "ErrReadingOldChartVersion"
           /\ (oldRead /\ args.old # EmptyVersion /\ ~args.newYamlOk) => ret.err = "ErrReadingNewChartVersion"
           /\ (compared /\ (args.old.kind # "semver" \/ args.new.kind # "semver")) =>
                 ret.err = "ErrMalformedVersion"

C14_Witness ==
    /\ FunctionReturned("CheckVersionIncrement")
    /\ args.exists /\ args.showOk /\ args.oldYamlOk /\ args.newYamlOk
    /\ args.old = SemVer(1, 1, 0)
    /\ args.new = SemVer(1, 1, 0)
    /\ ret.err = "ErrNeedsVersionBump"

\* ------------------------------------------------------------------ C15
\* The chart roots on disk, and the changed files that lie in one.
ChartRoots == { args.ChartDirs[i] \o << name >> : i \in 1..Len(args.ChartDirs), name \in {"foo", "bar"} }

\* The k-th changed file lies in chart root d and is not skipped by its name.
ChangedIn(d, k) == IsPrefix(d, Dir(args.files[k])) /\ ~SkippedByName(args, args.files[k])

FirstChangedIn(d) ==
    CHOOSE k \in 1..Len(args.files) : ChangedIn(d, k) /\ \A j \in 1..(k - 1) : ~ChangedIn(d, j)

\* C15: ComputeChangedChartDirectories returns the chart roots that the
\* changed files lie in, each exactly once, in the order in which they are
\* first seen in the list of changed files; a file that lies in no chart root
\* is skipped, and only Git makes the selection fail.
C15_ChangedChartsOnceInFirstSeenOrder ==
    FunctionReturned("ComputeChangedChartDirectories") =>
        /\ (ret.err = nil) <=> (args.repositoryOk /\ args.mergeBaseOk /\ args.diffOk)
        /\ ret.err # nil => ret.dirs = << >>
        /\ ret.err = nil =>
              /\ \A i \in 1..Len(ret.dirs) :
                    /\ ret.dirs[i] \in ChartRoots
                    /\ \E k \in 1..Len(args.files) : ChangedIn(ret.dirs[i], k)
              /\ \A d \in ChartRoots :
                    (\E k \in 1..Len(args.files) : ChangedIn(d, k)) =>
                        \E i \in 1..Len(ret.dirs) : ret.dirs[i] = d
              /\ \A i, j \in 1..Len(ret.dirs) :
                    i < j => /\ ret.dirs[i] # ret.dirs[j]
                             /\ FirstChangedIn(ret.dirs[i]) < FirstChangedIn(ret.dirs[j])

C15_Witness ==
    /\ FunctionReturned("ComputeChangedChartDirectories")
    /\ args.ExcludedCharts = {}
    /\ args.files = << << "charts", "foo", "templates", "x.yaml" >>, << "charts", "baz", "README.md" >>,
                       << "charts", "bar", "Chart.yaml" >>, << "charts", "foo", "Chart.yaml" >> >>
    /\ ret.err = nil
    /\ ret.dirs = << << "charts", "foo" >>, << "charts", "bar" >> >>

\* ------------------------------------------------------------------ C16
\* C16: for any changed files and any configured chart directories, no chart
\* directory whose name is an excluded chart is returned by
\* ComputeChangedChartDirectories.
C16_ExcludedChartsNeverReturned ==
    (FunctionReturned("ComputeChangedChartDirectories") /\ ret.err = nil) =>
        \A i \in 1..Len(ret.dirs) : ret.dirs[i][Len(ret.dirs[i])] \notin args.ExcludedCharts

\* ------------------------------------------------------------------ C17
\* The maintainers the account validator is asked about: up to and including
\* the first it rejects.
ExpectedValidations ==
    IF \E i \in 1..args.maintainers : ~args.valid[i]
      THEN CHOOSE i \in 1..args.maintainers : ~args.valid[i] /\ \A k \in 1..(i - 1) : args.valid[k]
      ELSE args.maintainers

\* C17: a deprecated chart fails if and only if it declares maintainers, and
\* no account is validated for it; a chart that is not deprecated fails with
\* zero maintainers, and otherwise passes if and only if the remote URL
\* lookup succeeds and every maintainer validates; validation stops at the
\* first invalid maintainer.
C17_MaintainersValidated ==
    (FunctionReturned("ValidateMaintainers") /\ args.yamlOk) =>
        /\ args.deprecated =>
              /\ (ret.err # nil) <=> args.maintainers > 0
              /\ ret.urlLookups = 0 /\ ret.validated = 0
        /\ (~args.deprecated /\ args.maintainers = 0) =>
              /\ ret.err = "ErrChartHasNoMaintainers"
              /\ ret.urlLookups = 0 /\ ret.validated = 0
        /\ (~args.deprecated /\ args.maintainers > 0) =>
              /\ (ret.err = nil) <=> (args.urlOk /\ \A i \in 1..args.maintainers : args.valid[i])
              /\ ret.urlLookups = 1
              /\ ret.validated = IF args.urlOk THEN ExpectedValidations ELSE 0

C17_Witness ==
    /\ FunctionReturned("ValidateMaintainers")
    /\ args.yamlOk /\ ~args.deprecated /\ args.urlOk
    /\ args.maintainers = 2
    /\ ~args.valid[1] /\ args.valid[2]
    /\ ret.err = "ErrInvalidMaintainer"
    /\ ret.validated = 1

\* ------------------------------------------------------------------ C18
\* LintChart has returned, and callLog holds the calls it made.
LintChartReturned == cfg.mode # "install" /\ pc \in {"Collect", "InstallChart"} /\ ~InCall

Stage(enabled, steps) == IF enabled THEN steps ELSE << >>

\* The calls of a LintChart call in which nothing fails, as << op, argument >>.
LintSteps(flags, files) ==
    Stage(flags.CheckVersionIncrement, << << "CheckVersionIncrement", "" >> >>)
    \o Stage(flags.ValidateChartSchema, << << "Yamale", "Chart.yaml" >> >>)
    \o Stage(flags.ValidateYaml,
              [i \in 1..(Len(files) + 2) |-> << "YamlLint", (<< "Chart.yaml", "values.yaml" >> \o files)[i] >>])
    \o Stage(flags.ValidateMaintainers, << << "ValidateMaintainers", "" >> >>)
    \o [i \in 1..Len(WithDefaultValues(files)) |-> << "LintWithValues", WithDefaultValues(files)[i] >>]

LintOps == {"CheckVersionIncrement", "Yamale", "YamlLint", "ValidateMaintainers", "LintWithValues"}

LintErrorsOf(op) ==
    CASE op = "CheckVersionIncrement" -> CheckVersionIncrementErrs \ {nil}
      [] op = "Yamale" -> {"ErrYamale"}
      [] op = "YamlLint" -> {"ErrYamlLint"}
      [] op = "ValidateMaintainers" -> ValidateMaintainersErrs \ {nil}
      [] op = "LintWithValues" -> {"ErrHelmLint"}

\* C18: LintChart runs its enabled stages in the order version-increment
\* check, schema validation, YAML lint of Chart.yaml, values.yaml and each
\* values file, maintainer validation, helm lint with each values file; the
\* first failing call is the last call made, and its error is the error of
\* the TestResult.
C18_LintStagesInOrderUntilFirstFailure ==
    LintChartReturned =>
        /\ result.Chart = charts[idx]
        /\ \A i \in 1..Len(callLog) : callLog[i].chart = charts[idx]
        /\ \A i \in 1..(Len(callLog) - 1) : callLog[i].ok
        /\ \E files \in FindValuesFilesForCI :
              LET steps == LintSteps(cfg.lint, files)
                  made == [i \in 1..Len(callLog) |-> << callLog[i].op, callLog[i].arg >>]
              IN /\ IsPrefix(made, steps)
                 /\ IF result.Error = nil
                      THEN made = steps /\ callLog[Len(callLog)].ok
                      ELSE /\ ~callLog[Len(callLog)].ok
                           /\ result.Error \in LintErrorsOf(callLog[Len(callLog)].op)

C18_Witness ==
    /\ LintChartReturned
    /\ cfg.lint = AllLintStages
    /\ Ops(callLog) = << "CheckVersionIncrement", "Yamale", "YamlLint", "YamlLint" >>
    /\ callLog[4].arg = "values.yaml" /\ ~callLog[4].ok
    /\ result.Error = "ErrYamlLint"

\* ------------------------------------------------------------------ C19
\* The three calls InstallChart makes for the chart in the pipeline.
UpgradeFromPreviousRevision ==
    [fn |-> "doUpgrade", caller |-> "UpgradeChart",
     oldChart |-> computePreviousRevisionPath(charts[idx]), newChart |-> charts[idx],
     oldChartMustPass |-> FALSE]

SelfUpgrade ==
    [fn |-> "doUpgrade", caller |-> "InstallChart", oldChart |-> charts[idx],
     newChart |-> charts[idx], oldChartMustPass |-> TRUE]

PlainInstall ==
    [fn |-> "doInstall", caller |-> "InstallChart", oldChart |-> charts[idx],
     newChart |-> charts[idx], oldChartMustPass |-> FALSE]

\* C19: with upgrade testing enabled InstallChart calls, in this order, the
\* upgrade from the previous revision with oldMustPass=false (unless the
\* breaking-change check allows skipping it), the self-upgrade with
\* oldMustPass=true and the plain install; a call is made only if the one
\* before it returned no error, and the first error is the error of the chart's
\* TestResult.
C19_Step ==
    cfg.Upgrade =>
        /\ call' # call =>
              \/ call' = NoCall
              \/ /\ pc = "UpgradeChartBranch" /\ call = NoCall
                 /\ IF breaking.allowed THEN call' = SelfUpgrade
                    ELSE breaking.err = nil /\ call' = UpgradeFromPreviousRevision
              \/ /\ pc = "doReturn" /\ callErr = nil
                 /\ \/ call = UpgradeFromPreviousRevision /\ call' = SelfUpgrade
                    \/ call = SelfUpgrade /\ call' = PlainInstall
        /\ (pc # "Collect" /\ pc' = "Collect") =>
              /\ result'.Chart = charts[idx]
              /\ IF InCall
                   THEN /\ pc = "doReturn"
                        /\ result'.Error = callErr
                        /\ callErr = nil => call = PlainInstall
                   ELSE /\ pc = "UpgradeChartBranch"
                        /\ result'.Error = breaking.err /\ breaking.err # nil

C19_UpgradeThenSelfUpgradeThenInstall == [][C19_Step]_vars

C19_Witness ==
    /\ pc = "Collect"
    /\ cfg.Upgrade
    /\ breaking = [allowed |-> FALSE, err |-> nil]
    /\ call = PlainInstall
    /\ result.Error = "ErrHelmTest"

\* ------------------------------------------------------------------ C20
\* An entry of the log that is the failure of the install, the wait or the test.
InstallFailure(e) == e.op \in {"InstallWithValues", "WaitForDeployments", "Test"} /\ ~e.ok

\* C20: in doInstall a failure of the install, the wait or the test for one
\* values file is the error doInstall returns, and only the cleanup of that
\* release follows it: no later values file is installed.  When the lint of
\* LintAndInstallChart has failed, its error is the chart's result and no
\* install call is made.
C20_InstallAbortsOnFirstFailure ==
    /\ (InCall /\ call.fn = "doInstall") =>
          \A i \in 1..Len(callLog) :
              InstallFailure(callLog[i]) =>
                  /\ \A j \in (i + 1)..Len(callLog) : IsCleanup(callLog[j])
                  /\ CleaningUp \/ pc = "FunReturn" \/ CallReturned
                  /\ ReturnedError(ErrorOf(callLog[i]))
                  /\ \A k \in IdentityStarts : k < i
    /\ (cfg.mode = "lintinstall" /\ result.Error \in UNION { LintErrorsOf(op) : op \in LintOps }) =>
          /\ pc = "Collect"
          /\ ~InCall
          /\ \A i \in 1..Len(callLog) : callLog[i].op \in LintOps

C20_Witness ==
    /\ pc = "doReturn"
    /\ call.fn = "doInstall"
    /\ Len(valuesFiles) = 2
    /\ vf = 1
    /\ callErr = "ErrWaitForDeployments"
    /\ Ops(callLog) = << "generateInstallConfig", "InstallWithValues", "WaitForDeployments" >> \o ExpectedCleanup

\* ------------------------------------------------------------------ C21
\* The start of the install identity of the running iteration.
CurrentIdentity == CHOOSE i \in IdentityStarts : SegmentEnd(i) = Len(callLog)

\* The error the iteration returns as decided by its install, wait, test and
\* upgrade calls alone: that of the last of them if it failed, unless it is a
\* failure of the old chart that need not pass.
ErrorOfBody ==
    LET body == Body(CurrentIdentity)
        last == body[Len(body)]
    IN IF last.ok THEN nil
       ELSE IF call.fn = "doUpgrade" /\ OldFailure(last) /\ ~call.oldChartMustPass THEN nil
       ELSE ErrorOf(last)

\* C21: a failure of the diagnostics during cleanup changes neither the error
\* of the iteration, which is the one its install, wait, test and upgrade
\* calls decide, nor the cleanup: the release is deleted after it, and the
\* namespace if it was generated.
C21_DiagnosticsNeverChangeOutcome ==
    /\ (CleaningUp \/ pc = "FunReturn") => funErr = ErrorOfBody
    /\ diag # "none" =>
          /\ pc \in {"DeleteRelease", "DeleteNamespace", "FunReturn"}
          /\ LET ops == Ops(Segment(CurrentIdentity))
                 cleaned == SubSeq(ops, Len(Body(CurrentIdentity)) + 1, Len(ops))
             IN /\ IsPrefix(cleaned, ExpectedCleanup)
                /\ pc = "DeleteRelease" => cleaned = << "PrintPodDetailsAndLogs" >>
                /\ pc = "DeleteNamespace" => cleaned = << "PrintPodDetailsAndLogs", "DeleteRelease" >>
                /\ pc = "FunReturn" => cleaned = ExpectedCleanup

C21_Witness ==
    /\ pc = "FunReturn"
    /\ diag = "failed"
    /\ cfg.Namespace = ""
    /\ call.fn = "doInstall"
    /\ funErr = "ErrHelmTest"
    /\ Ops(callLog) = << "generateInstallConfig", "InstallWithValues", "WaitForDeployments", "Test",
                         "PrintPodDetailsAndLogs", "DeleteRelease", "DeleteNamespace" >>

\* ------------------------------------------------------------------ C22
\* An install identity is live from its generation until its release, and its
\* namespace if it was generated, have been deleted.
Live(i) ==
    LET ops == Ops(Segment(i))
    IN \/ \A k \in 1..Len(ops) : ops[k] # "DeleteRelease"
       \/ /\ cfg.Namespace = ""
          /\ \A k \in 1..Len(ops) : ops[k] # "DeleteNamespace"

LiveIdentities == { i \in IdentityStarts : Live(i) }

\* The anonymous function of an iteration is between the generation of its
\* identity and the end of its deferred cleanup.
InIteration ==
    pc \in {"InstallWithValues", "WaitForDeployments", "Test", "Upgrade",
            "PrintPodDetailsAndLogs", "DeleteRelease", "DeleteNamespace"}

\* C22: at most one install identity is live at any time, that of the running
\* iteration: none is live when the next identity is about to be generated,
\* when doInstall or doUpgrade has returned, or anywhere else outside an
\* iteration.
C22_AtMostOneLiveIdentity ==
    /\ Cardinality(LiveIdentities) <= 1
    /\ \A i \in LiveIdentities : InIteration /\ SegmentEnd(i) = Len(callLog)
    /\ ~InCall => IdentityStarts = {}

C22_Witness ==
    /\ pc = "generateInstallConfig"
    /\ call.fn = "doUpgrade"
    /\ cfg.Namespace = ""
    /\ vf = 2
    /\ Cardinality(IdentityStarts) = 1
    /\ LiveIdentities = {}
    /\ callLog[Len(callLog)].op = "DeleteNamespace"

\* ------------------------------------------------------------------ C23
\* A call of the run was on the previous revision of a chart: on a path
\* under the ct_previous_revision worktree.
OnPreviousRevision(e) == Len(e.chart) > 0 /\ e.chart[1] = ctPreviousRevisionTree

PreviousRevisionUsed ==
    \/ calls.BuildDependenciesPrevious > 0
    \/ \E k \in 1..Len(callLog) : OnPreviousRevision(callLog[k])

\* C23 as stated: every operation on the previous revision of a chart happens
\* while the worktree exists, after a successful checkout of the merge base
\* and before the removal of the worktree, which is the last step of the run.
C23_PreviousRevisionOnlyInWorktree ==
    PreviousRevisionUsed =>
        /\ worktree \in {"present", "removed"}
        /\ worktree = "removed" => pc = "Done"

\* ------------------------------------------------------------------ C24
\* The arguments of the calls of `op` in the log, in order.
ArgsOf(op) ==
    LET made == SelectSeq(callLog, LAMBDA e : e.op = op)
    IN [i \in 1..Len(made) |-> made[i].arg]

\* The values-override files of the chart as the YAML stage of LintChart was
\* handed them, after Chart.yaml and values.yaml.
LintedFiles == SubSeq(ArgsOf("YamlLint"), 3, Len(ArgsOf("YamlLint")))

\* LintChart has returned after reaching its package-manager stage.
LintWithValuesReached ==
    /\ LintChartReturned
    /\ result.Error = nil \/ (Len(callLog) > 0 /\ callLog[Len(callLog)].op = "LintWithValues")

\* C24: the effective values-override set is never empty.  A chart without
\* values-override files is linted with the package manager once, with no
\* override, and doInstall and doUpgrade make one install attempt for it; a
\* chart with n >= 1 files gets at most n attempts, one per file in order,
\* and no attempt without an override.
C24_EffectiveValuesNeverEmpty ==
    /\ LintWithValuesReached =>
          LET lints == ArgsOf("LintWithValues")
          IN /\ Len(lints) >= 1
             /\ lints = << "" >> \/ IsPrefix(lints, AllValuesFiles)
             /\ result.Error = nil /\ cfg.lint.ValidateYaml =>
                   IF LintedFiles = << >> THEN lints = << "" >> ELSE lints = LintedFiles
    /\ InCall =>
          LET attempts == ArgsOf("generateInstallConfig")
              installs == ArgsOf("InstallWithValues")
          IN /\ Len(valuesFiles) >= 1
             /\ valuesFiles = << "" >> \/ IsPrefix(valuesFiles, AllValuesFiles)
             /\ IsPrefix(attempts, valuesFiles)
             /\ IsPrefix(installs, attempts)
             /\ Len(installs) >= Len(attempts) - 1
             /\ pc # "generateInstallConfig" => Len(attempts) = vf
             /\ CallReturned => Len(installs) = Len(attempts) /\ Len(attempts) >= 1
             /\ (CallReturned /\ callErr = nil) => attempts = valuesFiles

C24_Witness ==
    /\ pc = "doReturn"
    /\ call.fn = "doInstall"
    /\ valuesFiles = << "" >>
    /\ callErr = nil
    /\ ArgsOf("InstallWithValues") = << "" >>

====
